---------------------------- MODULE Spec2Model ----------------------------
(***************************************************************************)
(* A model of the G-code generator of src/src/lib.rs: the Code commands,   *)
(* their rendering, Printer::draw_point, Printer::total_dist and           *)
(* Printer::save.                                                          *)
(*                                                                         *)
(* Numbers.  The program computes in f32.  Here every coordinate, height   *)
(* and feed rate is an integer number of tenths (6.5 is 65), which is what *)
(* the {:.1} format prints exactly.  A distance is an integer number of    *)
(* 1/Fine tenths, the square root rounded down to that resolution.  The    *)
(* casts `as u32` truncate, as integer division does here for the values   *)
(* (all >= 0) they are applied to.  The f32 rounding errors of a distance  *)
(* (about 1e-7 relative) are below this resolution and are not modelled;   *)
(* those of the progress message change what is printed, and are.          *)
(*                                                                         *)
(* Text.  A String is a sequence of tokens (TLA+ strings) whose            *)
(* concatenation is the text; a space that a format string puts between    *)
(* two fields is a token of its own, and a number is one token per         *)
(* character.  Str flattens a text to one TLA+ string.                     *)
(***************************************************************************)
EXTENDS Integers, Sequences, FiniteSets, TLC

VARIABLES printer,  \* the Printer: config, code (the command buffer), width, height
          status,   \* how the last call ended: "ready" (new or draw_point
                    \* returned), "saved" (save returned), "panicked"
          file,     \* the output sink of the last save of the present buffer
          saves,    \* number of saves of the present buffer that returned
          prev,     \* the commands the first of them handed to write_code
          arg,      \* input of the pure function under check
          res       \* its result

vars == <<printer, status, file, saves, prev, arg, res>>

---------------------------------------------------------------------------
(* Bounds of the model *)

MaxCalls == 3        \* draw_point calls in Spec
MaxSaves == 2        \* saves between two changes of the buffer
MaxFailAt == 2       \* the first failing write_all is one of the first MaxFailAt
MaxLongCalls == 90   \* draw_point calls in SpecLong
MaxSkipCalls == 2000 \* draw_point calls behind the buffer lengths of SpecSkip
Fine == 50           \* distance units per tenth

(* Constants of the program, in tenths where they are f32 *)

G_MODE == 0
Z_RESET == 800
SPEED == 100

---------------------------------------------------------------------------
(* Option<T>: None is the empty sequence, Some(v) the sequence <<v>> *)

None == <<>>
Some(v) == <<v>>
IsSome(o) == o # <<>>
Unwrap(o) == o[1]
OptionOr(a, b) == IF IsSome(a) THEN a ELSE b

(* F applied to the value of v, which is computed first, as a statement is *)
(* run before the next one (TLC would otherwise evaluate v inside F, and a *)
(* loop of n turns to a depth of n)                                        *)
Then(v, F(_)) == CHOOSE r \in {F(y) : y \in {v}} : TRUE

Max(a, b) == IF a >= b THEN a ELSE b
Abs(a) == IF a < 0 THEN -a ELSE a

(* The largest r with r * r <= n, for 0 <= n < 2^31, by bisection *)
RECURSIVE SqrtSearch(_, _, _)
SqrtSearch(n, lo, hi) ==
    IF lo = hi THEN lo
    ELSE LET mid == (lo + hi + 1) \div 2
         IN  IF mid * mid <= n THEN SqrtSearch(n, mid, hi)
                               ELSE SqrtSearch(n, lo, mid - 1)

ISqrt(n) == SqrtSearch(n, 0, 46340)

---------------------------------------------------------------------------
(* Text *)

Digit(d) == <<"0", "1", "2", "3", "4", "5", "6", "7", "8", "9">>[d + 1]

RECURSIVE Digits(_)
Digits(n) == IF n < 10 THEN <<Digit(n)>>
                       ELSE Digits(n \div 10) \o <<Digit(n % 10)>>

(* format!("{:.1}", v) for v given in tenths *)
Fmt1(v) ==
    (IF v < 0 THEN <<"-">> ELSE <<>>)
        \o Digits(Abs(v) \div 10) \o <<".", Digit(Abs(v) % 10)>>

(* format!("{:02}", n) *)
Fmt02(n) == IF n < 10 THEN <<"0", Digit(n)>> ELSE Digits(n)

RECURSIVE Str(_)
Str(t) == IF t = <<>> THEN "" ELSE Head(t) \o Str(Tail(t))

---------------------------------------------------------------------------
(* The commands *)

Point(x, y, z) == [x |-> x, y |-> y, z |-> z]

Source(c, comment) == [code |-> c, comment |-> comment]

Comment(c) == [kind |-> "Comment", c |-> c]
Model(m) == [kind |-> "Model", m |-> m]
Message(m) == [kind |-> "Message", m |-> m]
Move(p, s) == [kind |-> "Move", p |-> p, s |-> s]
Raw(src) == [kind |-> "Raw", src |-> src]
NOP == [kind |-> "NOP"]

xy(a, b, c) == Move(Point(Some(a), Some(b), None), c)
z(a, b) == Move(Point(None, None, Some(a)), b)
raw(a, b) == Raw(Source(a, Some(b)))

HOME == raw("G28 W", "Home all without mesh bed level")
UNITS_MM == raw("G21", "Set units to millimeters")
ABS_COORD == raw("G90", "Use absolute coordinates")
SET_ORIGIN == raw("G92 X0 Y0", "Set current position to origin")
OFF == raw("M84", "Disable motors")

---------------------------------------------------------------------------
(* Rendering *)

render_coord(axis, v) ==
    IF IsSome(v) THEN <<axis>> \o Fmt1(Unwrap(v)) ELSE <<>>

(* Display for Point with a space after every fragment but the last slot *)
PointToString_space_after_each(self) ==
    LET x == render_coord("X", self.x)
        y == render_coord("Y", self.y)
        zz == render_coord("Z", self.z)
        x_space == IF Len(x) > 0 THEN <<" ">> ELSE <<>>
        y_space == IF Len(y) > 0 THEN <<" ">> ELSE <<>>
    IN  x \o x_space \o y \o y_space \o zz

PointToString(self) ==
    LET x == render_coord("X", self.x)
        y == render_coord("Y", self.y)
        zz == render_coord("Z", self.z)
        x_space == IF Len(x) > 0 /\ (Len(y) > 0 \/ Len(zz) > 0)
                   THEN <<" ">> ELSE <<>>
        y_space == IF Len(y) > 0 /\ Len(zz) > 0 THEN <<" ">> ELSE <<>>
    IN  x \o x_space \o y \o y_space \o zz

SourceToString(self) ==
    IF IsSome(self.comment)
    THEN <<self.code, " ; ", Unwrap(self.comment)>>
    ELSE <<self.code>>

WarningLine == <<"; ", "[WARNING] Move without coordinates!">>

render_move(point, feed) ==
    LET point_str == PointToString(point)
    IN  IF Len(point_str) = 0
        THEN WarningLine
        ELSE <<"G">> \o Digits(G_MODE) \o <<" ">> \o point_str
                 \o <<" ", "F">> \o Fmt1(feed)

CodeToString(self) ==
    CASE self.kind = "Comment" -> <<"; ">> \o self.c
      [] self.kind = "Model" ->
            <<"M862.3 P \"">> \o self.m \o <<"\" ; printer model check">>
      [] self.kind = "Message" -> <<"M117 ">> \o self.m
      [] self.kind = "Move" -> render_move(self.p, self.s)
      [] self.kind = "Raw" -> SourceToString(self.src)
      [] self.kind = "NOP" -> <<>>

---------------------------------------------------------------------------
(* Geometry *)

Sq(a) == a * a

(* delta_point with an absent axis read as 0.0 *)
delta_point_absent_as_zero(a, b) ==
    LET val(o) == IF IsSome(o) THEN Unwrap(o) ELSE 0
    IN  ISqrt((Sq(val(a.x) - val(b.x)) + Sq(val(a.y) - val(b.y))
                 + Sq(val(a.z) - val(b.z))) * Sq(Fine))

(* The Euclidean norm of the axes present in both points, in 1/Fine tenths *)
delta_point(a, b) ==
    LET diff(p, q) == p - q
        delta_x == IF IsSome(a.x) /\ IsSome(b.x)
                   THEN diff(Unwrap(a.x), Unwrap(b.x)) ELSE 0
        delta_y == IF IsSome(a.y) /\ IsSome(b.y)
                   THEN diff(Unwrap(a.y), Unwrap(b.y)) ELSE 0
        delta_z == IF IsSome(a.z) /\ IsSome(b.z)
                   THEN diff(Unwrap(a.z), Unwrap(b.z)) ELSE 0
    IN  ISqrt((Sq(delta_x) + Sq(delta_y) + Sq(delta_z)) * Sq(Fine))

(* ((m - rmin) / (rmax - rmin)) * (tmax - tmin) + tmin, the product taken  *)
(* before the quotient so that the fixed-point result is the nearest tenth *)
(* below the real one                                                      *)
rescale(m, rmin, rmax, tmin, tmax) ==
    ((m - rmin) * (tmax - tmin)) \div (rmax - rmin) + tmin

---------------------------------------------------------------------------
(* The Printer *)

test_config ==
    [model |-> Some(Model(<<"MK3S">>)),
     min |-> <<500, 350>>,
     max |-> <<2540, 2120>>,
     scale |-> None,
     z0 |-> 65,
     z_plunge |-> 40,
     move_speed |-> 10000,
     plunge_speed |-> 5000,
     retract_speed |-> 8000]

new(cfg) ==
    [config |-> cfg,
     code |-> <<>>,
     width |-> cfg.max[1] - cfg.min[1],
     height |-> cfg.max[2] - cfg.min[2]]

(* draw_point as src/src/main.rs has it: no NOP after the three moves *)
draw_point_without_nop(self, xp, yp) ==
    [self EXCEPT !.code = @ \o
        << Comment(<<"draw_point(">> \o Fmt1(xp) \o <<", ">> \o Fmt1(yp)
                       \o <<")">>),
           xy(xp, yp, self.config.move_speed),
           z(self.config.z_plunge, self.config.plunge_speed),
           z(self.config.z0, self.config.retract_speed) >>]

(* draw_point with pen up and pen down exchanged *)
draw_point_pen_swapped(self, xp, yp) ==
    [self EXCEPT !.code = @ \o
        << Comment(<<"draw_point(">> \o Fmt1(xp) \o <<", ">> \o Fmt1(yp)
                       \o <<")">>),
           xy(xp, yp, self.config.move_speed),
           z(self.config.z0, self.config.retract_speed),
           z(self.config.z_plunge, self.config.plunge_speed),
           NOP >>]

draw_point(self, xp, yp) ==
    LET x == IF IsSome(self.config.scale)
             THEN rescale(xp, 0, Unwrap(self.config.scale)[1], 0, self.width)
             ELSE xp
        y == IF IsSome(self.config.scale)
             THEN rescale(yp, 0, Unwrap(self.config.scale)[2], 0, self.height)
             ELSE yp
    IN  [self EXCEPT !.code = @ \o
            << Comment(<<"draw_point(">> \o Fmt1(xp) \o <<", ">> \o Fmt1(yp)
                           \o <<")">>),
               xy(x, y, self.config.move_speed),
               z(self.config.z_plunge, self.config.plunge_speed),
               z(self.config.z0, self.config.retract_speed),
               NOP >>]

(* dist_step without the carry-forward: the position becomes the target *)
dist_step_no_carry(st, c) ==
    IF c.kind = "Move"
    THEN [total_dist |-> st.total_dist + delta_point(st.curr_point, c.p),
          curr_point |-> c.p]
    ELSE st

(* One turn of the loop of total_dist on command c *)
dist_step(st, c) ==
    IF c.kind = "Move"
    THEN [total_dist |-> st.total_dist + delta_point(st.curr_point, c.p),
          curr_point |-> Point(OptionOr(c.p.x, st.curr_point.x),
                               OptionOr(c.p.y, st.curr_point.y),
                               OptionOr(c.p.z, st.curr_point.z))]
    ELSE st

(* The loop of total_dist over cmds[lo..hi], left to right (the range is   *)
(* halved only to keep the evaluation shallow)                             *)
RECURSIVE dist_loop(_, _, _, _)
dist_loop(st, cmds, lo, hi) ==
    IF lo > hi THEN st
    ELSE IF lo = hi THEN dist_step(st, cmds[lo])
    ELSE LET mid == (lo + hi) \div 2
         IN  Then(dist_loop(st, cmds, lo, mid),
                  LAMBDA st1 : dist_loop(st1, cmds, mid + 1, hi))

total_dist(self) ==
    dist_loop([total_dist |-> 0,
               curr_point |-> Point(Some(0), Some(0), Some(self.config.z0))],
              self.code, 1, Len(self.code)).total_dist

---------------------------------------------------------------------------
(* The output sink.  A File is the record of what File::create returned:   *)
(* data holds the byte strings written so far, writes counts the calls of  *)
(* write_all, of which those numbered from failFrom on fail (all of them   *)
(* when permanent, else only the first; failFrom = 0: none).  log is the   *)
(* history of the commands handed to write_code.                           *)

create(io) ==
    [failFrom |-> io.failFrom, permanent |-> io.permanent,
     writes |-> 0, data |-> <<>>, log |-> <<>>]

NoFile == create([failFrom |-> 0, permanent |-> FALSE])

write_fails(f, n) ==
    /\ f.failFrom > 0
    /\ IF f.permanent THEN n >= f.failFrom ELSE n = f.failFrom

(* File::write_all: the bytes are appended, or the call fails *)
write_all(f, bytes) ==
    LET n == f.writes + 1
    IN  IF write_fails(f, n)
        THEN [f EXCEPT !.writes = n]
        ELSE [f EXCEPT !.writes = n, !.data = Append(@, bytes)]

(* write_code giving up the line at the first error, as with `?` *)
write_code_gives_up(f, c) ==
    LET f1 == write_all(f, CodeToString(c))
        f2 == IF Len(f1.data) = Len(f.data) THEN f1
              ELSE write_all(f1, <<"\n">>)
    IN  [f2 EXCEPT !.log = Append(@, c)]

(* Both results of write_all are discarded *)
write_code(f, c) ==
    LET f1 == write_all(f, CodeToString(c))
        f2 == write_all(f1, <<"\n">>)
    IN  [f2 EXCEPT !.log = Append(@, c)]

(* for c in cmds[lo..hi] { write_code(f, c) } *)
RECURSIVE write_loop(_, _, _, _)
write_loop(f, cmds, lo, hi) ==
    IF lo > hi THEN f
    ELSE IF lo = hi THEN write_code(f, cmds[lo])
    ELSE LET mid == (lo + hi) \div 2
         IN  Then(write_loop(f, cmds, lo, mid),
                  LAMBDA f1 : write_loop(f1, cmds, mid + 1, hi))

---------------------------------------------------------------------------
(* Printer::save *)

save_header(self) ==
    <<Comment(<<"Start of generated code">>)>>
      \o (IF IsSome(self.config.model) THEN <<Unwrap(self.config.model)>>
                                       ELSE <<>>)
      \o << UNITS_MM, ABS_COORD, HOME, NOP,
            z(self.config.z0, self.config.move_speed),
            xy(self.config.min[1], self.config.min[2], self.config.move_speed),
            SET_ORIGIN,
            Message(<<"0.0%">>),
            NOP >>

save_footer(self) ==
    << Comment(<<"Lift the head up before turning off">>),
       z(Z_RESET, self.config.move_speed),
       OFF,
       NOP >>

(* The interval with the product rounded to the nearest integer *)
save_skip_rounded(len) == Max((len * 15 + 500) \div 1000, 5)

(* cmp::max(((len as f32) * 0.015) as u32, 5).  The f32 product, cut to an *)
(* integer, is the integer part of 3 * len / 200 for every len below 2^24: *)
(* 0.015f32 is 0.015 * (1 - 2.3e-8), less than half an ulp away, so the    *)
(* product rounds to the exact value where that is an integer, and is at   *)
(* least 1/200 away from every integer elsewhere.                          *)
save_skip(len) == Max((len * 15) \div 1000, 5)

(* (total_dist / SPEED) as u32, in seconds *)
save_total_time(self) == total_dist(self) \div (Fine * SPEED)

(* a / b rounded to the nearest integer, a tie to the even one *)
RoundDiv(a, b) ==
    LET q == a \div b
        r == a % b
    IN  IF 2 * r > b \/ (2 * r = b /\ q % 2 = 1) THEN q + 1 ELSE q

(* f32 in the progress message.  A positive f32 is kept as [m, e], the     *)
(* value m / 2^e with 2^23 <= m <= 2^24; every operation rounds its exact  *)
(* result to 24 significant bits, a tie to the even one.                   *)

(* The s >= 1 with 1 <= a * 2^s / b < 2, for 0 < a < b *)
RECURSIVE Shift(_, _)
Shift(a, b) == IF 2 * a >= b THEN 1 ELSE 1 + Shift(2 * a, b)

(* n more bits of the quotient quot of a division by d with remainder r *)
RECURSIVE DivBits(_, _, _, _)
DivBits(r, d, quot, n) ==
    IF n = 0 THEN [quot |-> quot, r |-> r]
    ELSE IF 2 * r >= d THEN DivBits(2 * r - d, d, 2 * quot + 1, n - 1)
                       ELSE DivBits(2 * r, d, 2 * quot, n - 1)

(* (a as f32) / (b as f32) for 0 < a < b < 2^24 *)
f32_div(a, b) ==
    LET s == Shift(a, b)
        d == DivBits(a * 2^s - b, b, 1, 23)
        up == 2 * d.r > b \/ (2 * d.r = b /\ d.quot % 2 = 1)
    IN  [m |-> IF up THEN d.quot + 1 ELSE d.quot, e |-> s + 23]

(* 1.0 - p for 0 < p < 1, in units of 2^-24: exact where p >= 0.5, and     *)
(* rounded to a multiple of 2^-24 below                                    *)
f32_one_minus(p) == 2^24 - RoundDiv(p.m, 2^(p.e - 24))

(* (q * t) as u32 for q in units of 2^-24, q <= 2^24, and a whole t: the   *)
(* product q * t = n * 2^24 + rest is rounded to the 24 bits that start at *)
(* the first bit of n, and reaches n + 1 where rest is within half a unit  *)
(* of 2^24                                                                 *)
f32_mul_trunc(q, t) ==
    LET hi == (q \div 4096) * t
        lo == (q % 4096) * t
        c == hi + lo \div 4096
        n == c \div 4096
        rest == (c % 4096) * 4096 + (lo % 4096)
        bits == CHOOSE b \in 0..24 : n < 2^b /\ (b = 0 \/ 2^(b - 1) <= n)
    IN  IF 2 * (2^24 - rest) <= 2^bits THEN n + 1 ELSE n

(* format!("{:.1}", p * 100.0) in tenths: the product rounded to 24 bits,  *)
(* then to the nearest tenth                                               *)
f32_percent(p) ==
    LET t == IF p.m * 100 >= 2^30 THEN 7 ELSE 6
        m == RoundDiv(p.m * 100, 2^t)
    IN  RoundDiv(10 * m, 2^(p.e - t))

(* The progress message after the count-th of len commands:                *)
(* percent = count / len; total_seconds = ((1.0 - percent) * total_time)   *)
(* as u32; format!("{:.1}% R{:02}:{:02}:{:02}", percent * 100.0, hours,    *)
(* minutes, seconds).  0 / len and len / len are the exact 0.0 and 1.0.    *)
save_message(count, len, total_time) ==
    LET whole == count = 0 \/ count = len
        percent == IF whole THEN [m |-> 2^23, e |-> 23] ELSE f32_div(count, len)
        tenths == IF count = 0 THEN 0
                  ELSE IF count = len THEN 1000 ELSE f32_percent(percent)
        total_seconds == IF count = 0 THEN total_time
                         ELSE IF count = len THEN 0
                         ELSE f32_mul_trunc(f32_one_minus(percent), total_time)
        hours == total_seconds \div 3600
        minutes == (total_seconds % 3600) \div 60
        seconds == total_seconds % 60
    IN  Message(Fmt1(tenths) \o <<"%", " ", "R">>
                  \o Fmt02(hours) \o <<":">> \o Fmt02(minutes) \o <<":">>
                  \o Fmt02(seconds))

(* body_step writing the progress message in place of the command *)
body_step_message_replaces(st, c, len, skip, total_time) ==
    LET f2 == IF st.count % skip = 0
              THEN write_code(st.f, save_message(st.count, len, total_time))
              ELSE write_code(st.f, c)
    IN  [f |-> f2, count |-> st.count + 1]

(* body_step with the counter tested as if it started at 0 *)
body_step_zero_indexed(st, c, len, skip, total_time) ==
    LET f1 == write_code(st.f, c)
        f2 == IF (st.count - 1) % skip = 0
              THEN write_code(f1, save_message(st.count, len, total_time))
              ELSE f1
    IN  [f |-> f2, count |-> st.count + 1]

(* One turn of the body loop of save on command c *)
body_step(st, c, len, skip, total_time) ==
    LET f1 == write_code(st.f, c)
        f2 == IF st.count % skip = 0
              THEN write_code(f1, save_message(st.count, len, total_time))
              ELSE f1
    IN  [f |-> f2, count |-> st.count + 1]

(* The body loop as a do-while: it reports the progress once even when     *)
(* there is no command                                                     *)
RECURSIVE body_loop_do_while(_, _, _, _, _, _)
body_loop_do_while(st, cmds, lo, hi, skip, total_time) ==
    IF lo > hi
    THEN [f |-> write_code(st.f, save_message(0, 1, total_time)),
          count |-> st.count + 1]
    ELSE IF lo = hi THEN body_step(st, cmds[lo], Len(cmds), skip, total_time)
    ELSE LET mid == (lo + hi) \div 2
         IN  Then(body_loop_do_while(st, cmds, lo, mid, skip, total_time),
                  LAMBDA st1 : body_loop_do_while(st1, cmds, mid + 1, hi, skip,
                                                  total_time))

(* The body loop over cmds[lo..hi], left to right *)
RECURSIVE body_loop(_, _, _, _, _, _)
body_loop(st, cmds, lo, hi, skip, total_time) ==
    IF lo > hi THEN st
    ELSE IF lo = hi THEN body_step(st, cmds[lo], Len(cmds), skip, total_time)
    ELSE LET mid == (lo + hi) \div 2
         IN  Then(body_loop(st, cmds, lo, mid, skip, total_time),
                  LAMBDA st1 : body_loop(st1, cmds, mid + 1, hi, skip,
                                         total_time))

(* save after File::create has returned file f0: the file at the end *)
save(self, f0) ==
    LET header == save_header(self)
        footer == save_footer(self)
        skip == save_skip(Len(self.code))
    IN  Then(write_loop(f0, header, 1, Len(header)), LAMBDA f1 :
        Then(save_total_time(self), LAMBDA total_time :
        Then(body_loop([f |-> f1, count |-> 1], self.code, 1,
                       Len(self.code), skip, total_time), LAMBDA st :
        write_loop(st.f, footer, 1, Len(footer)))))

---------------------------------------------------------------------------
(* The state machine *)

(* A Printer without model check, with a long plunge of 90.0 *)
tall_config ==
    [test_config EXCEPT !.model = None, !.z0 = 900, !.z_plunge = 0,
                        !.move_speed = 12005]

(* A Printer that halves its input: 408.0 x 354.0 onto 204.0 x 177.0 *)
scaled_config == [test_config EXCEPT !.scale = Some(<<4080, 3540>>)]

Configs == { test_config, tall_config, scaled_config }

(* The points drawn, in tenths: those of the test dist_test and the origin *)
Points == { <<0, 0>>, <<500, 490>>, <<290, 290>> }

(* What the file system does to one save: File::create fails, or returns a *)
(* file whose writes fail as create() describes                            *)
IoOutcomes ==
    { [create |-> FALSE, failFrom |-> 0, permanent |-> FALSE] }
      \cup { [create |-> TRUE, failFrom |-> n, permanent |-> b] :
                n \in 1..MaxFailAt, b \in BOOLEAN }
      \cup { [create |-> TRUE, failFrom |-> 0, permanent |-> FALSE] }

Init ==
    /\ \E cfg \in Configs : printer = new(cfg)
    /\ status = "ready"
    /\ file = NoFile
    /\ saves = 0
    /\ prev = <<>>
    /\ arg = None
    /\ res = None

DrawPoint ==
    /\ status # "panicked"
    /\ Len(printer.code) < 5 * MaxCalls
    /\ \E p \in Points : printer' = draw_point(printer, p[1], p[2])
    /\ status' = "ready"
    /\ file' = NoFile
    /\ saves' = 0
    /\ prev' = <<>>
    /\ UNCHANGED <<arg, res>>

(* File::create(filename).unwrap() panics when the file cannot be created, *)
(* before anything is written                                              *)
Save ==
    /\ status # "panicked"
    /\ saves < MaxSaves
    /\ \E io \in IoOutcomes :
          IF io.create
          THEN /\ file' = save(printer, create(io))
               /\ status' = "saved"
               /\ saves' = saves + 1
               /\ prev' = IF saves = 0 THEN file'.log ELSE prev
          ELSE /\ file' = NoFile
               /\ status' = "panicked"
               /\ UNCHANGED <<saves, prev>>
    /\ UNCHANGED <<printer, arg, res>>

Next == DrawPoint \/ Save

Spec == Init /\ [][Next]_vars

(* Long buffers: one Printer and the same point again and again, as in the *)
(* test progress_example                                                   *)

LongPoint == <<500, 500>>

InitLong ==
    /\ printer = new(tall_config)
    /\ status = "ready"
    /\ file = NoFile
    /\ saves = 0
    /\ prev = <<>>
    /\ arg = None
    /\ res = None

DrawSame ==
    /\ status # "panicked"
    /\ Len(printer.code) < 5 * MaxLongCalls
    /\ printer' = draw_point(printer, LongPoint[1], LongPoint[2])
    /\ status' = "ready"
    /\ file' = NoFile
    /\ saves' = 0
    /\ prev' = <<>>
    /\ UNCHANGED <<arg, res>>

NextLong == DrawSame \/ Save

SpecLong == InitLong /\ [][NextLong]_vars

(* The interval of save, on the lengths a buffer can have *)

InitSkip ==
    /\ printer = new(test_config)
    /\ status = "ready"
    /\ file = NoFile
    /\ saves = 0
    /\ prev = <<>>
    /\ arg \in { Some(5 * n) : n \in 0..MaxSkipCalls }
    /\ res = None

ApplySkip ==
    /\ res = None
    /\ res' = Some(save_skip(Unwrap(arg)))
    /\ UNCHANGED <<printer, status, file, saves, prev, arg>>

NextSkip == ApplySkip

SpecSkip == InitSkip /\ [][NextSkip]_vars

(* The rendering of a Move, on every combination of axes *)

CoordValues == { 0, 10, 20, -125, 2540 }

Coords == { None } \cup { Some(v) : v \in CoordValues }

Feeds == { 10000, 5005 }

InitRender ==
    /\ printer = new(test_config)
    /\ status = "ready"
    /\ file = NoFile
    /\ saves = 0
    /\ prev = <<>>
    /\ arg \in { Some(Move(Point(cx, cy, cz), feed)) :
                    cx \in Coords, cy \in Coords, cz \in Coords, feed \in Feeds }
    /\ res = None

ApplyRender ==
    /\ res = None
    /\ res' = Some(CodeToString(Unwrap(arg)))
    /\ UNCHANGED <<printer, status, file, saves, prev, arg>>

NextRender == ApplyRender

SpecRender == InitRender /\ [][NextRender]_vars

---------------------------------------------------------------------------
(* What the claims speak of *)

Buf == printer.code
Cfg == printer.config
NCalls == Len(Buf) \div 5

(* The inputs of draw_point in the specifications above *)
Inputs == Points \cup {LongPoint}

IsXYMove(c) == c.kind = "Move" /\ (IsSome(c.p.x) \/ IsSome(c.p.y))
IsZMove(c) == c.kind = "Move" /\ IsSome(c.p.z)

(* cmds[5i+1 .. 5i+5] is what one draw_point(p) of a Printer self appends *)
IsDrawPattern(cmds, i, self, p) ==
    LET c1 == cmds[5 * i + 1]
        c2 == cmds[5 * i + 2]
        c3 == cmds[5 * i + 3]
        c4 == cmds[5 * i + 4]
        c5 == cmds[5 * i + 5]
        cfg == self.config
    IN  /\ c1.kind = "Comment"
        /\ Str(CodeToString(c1)) =
              "; draw_point(" \o Str(Fmt1(p[1])) \o ", " \o Str(Fmt1(p[2]))
                  \o ")"
        /\ c2.kind = "Move"
        /\ IsSome(c2.p.x) /\ IsSome(c2.p.y) /\ c2.p.z = None
        /\ IF cfg.scale = None
           THEN Unwrap(c2.p.x) = p[1] /\ Unwrap(c2.p.y) = p[2]
           ELSE /\ Unwrap(c2.p.x) * Unwrap(cfg.scale)[1] = p[1] * self.width
                /\ Unwrap(c2.p.y) * Unwrap(cfg.scale)[2] = p[2] * self.height
        /\ c2.s = cfg.move_speed
        /\ c3.kind = "Move"
        /\ c3.p = [x |-> None, y |-> None, z |-> Some(cfg.z_plunge)]
        /\ c3.s = cfg.plunge_speed
        /\ c4.kind = "Move"
        /\ c4.p = [x |-> None, y |-> None, z |-> Some(cfg.z0)]
        /\ c4.s = cfg.retract_speed
        /\ c5.kind = "NOP"

(* C1: every draw_point appends exactly five commands, Comment, Move to    *)
(* (x, y), Move to the plunge height, Move to the resting height and NOP,  *)
(* each at its feed rate, and leaves the commands already in the buffer in *)
(* place: the buffer after n calls is n repetitions of that pattern.       *)
C1_DrawPointAppendsFive ==
    [][printer'.code # printer.code =>
          LET before == printer.code
              after == printer'.code
          IN  /\ Len(after) = Len(before) + 5
              /\ SubSeq(after, 1, Len(before)) = before
              /\ \A i \in 0..(Len(after) \div 5 - 1) :
                    \E p \in Inputs : IsDrawPattern(after, i, printer', p)]_vars

C1_Witness ==
    /\ NCalls = 2
    /\ Len(Buf) = 10
    /\ Cfg.scale # None
    /\ IsDrawPattern(Buf, 0, printer, <<500, 490>>)
    /\ IsDrawPattern(Buf, 1, printer, <<290, 290>>)

---------------------------------------------------------------------------
(* Distances *)

(* The input point of the i-th draw_point call (i from 1) of a Printer     *)
(* without rescaling, read from the buffer, and the origin for i = 0       *)
DrawnPoint(i) ==
    IF i = 0 THEN <<0, 0>>
    ELSE <<Unwrap(Buf[5 * i - 3].p.x), Unwrap(Buf[5 * i - 3].p.y)>>

(* The length of the planar segment from a to b, in distance units *)
Leg(a, b) == ISqrt((Sq(a[1] - b[1]) + Sq(a[2] - b[2])) * Sq(Fine))

(* The length of the polyline (0,0) -> p1 -> ... -> pn *)
RECURSIVE PolylineLength(_)
PolylineLength(n) ==
    IF n = 0 THEN 0
    ELSE PolylineLength(n - 1) + Leg(DrawnPoint(n - 1), DrawnPoint(n))

(* The travel down and up again of one call, in distance units *)
PlungeTravel == 2 * (Cfg.z0 - Cfg.z_plunge) * Fine

SamePointCalls ==
    /\ Cfg.scale = None
    /\ NCalls >= 1
    /\ \A i \in 1..NCalls : DrawnPoint(i) = DrawnPoint(1)

(* a and b, in distance units, differ by less than 0.01 (a tenth of a tenth) *)
Within001(a, b) == 10 * Abs(a - b) < Fine

(* C7 as claimed: n calls at the same (x, y) travel n * 2 * (z0 - z_plunge) *)
(* and nothing else.                                                       *)
C7_Original_SamePointOnlyVertical ==
    SamePointCalls => total_dist(printer) = NCalls * PlungeTravel

(* C7 as amended: without rescaling, n calls at the same (x, y) travel the *)
(* first leg from (0, 0) to (x, y) plus n * 2 * (z0 - z_plunge); the       *)
(* lateral distance is zero when (x, y) is the origin, and then, for       *)
(* z0 = 6.5, z_plunge = 4.0 and two calls, the result is 10.0 within 0.01. *)
C7_SamePointFirstLegPlusVertical ==
    SamePointCalls =>
        /\ total_dist(printer) =
              Leg(<<0, 0>>, DrawnPoint(1)) + NCalls * PlungeTravel
        /\ DrawnPoint(1) = <<0, 0>> =>
              total_dist(printer) = NCalls * PlungeTravel
        /\ (DrawnPoint(1) = <<0, 0>> /\ Cfg.z0 = 65 /\ Cfg.z_plunge = 40
                /\ NCalls = 2) =>
              Within001(total_dist(printer), 100 * Fine)

C7_Witness ==
    /\ SamePointCalls
    /\ NCalls = 2
    /\ DrawnPoint(1) = <<500, 490>>
    /\ total_dist(printer) > NCalls * PlungeTravel

(* C8: without rescaling, total_dist is the length of the planar polyline  *)
(* (0,0) -> p1 -> ... -> pn plus 2 * (z0 - z_plunge) for each call; for    *)
(* draw_point(50, 49), draw_point(29, 29) with z0 = 6.5 and z_plunge = 4.0 *)
(* it is 99.0 + 10.0 within 0.01.                                          *)
C8_PolylinePlusVertical ==
    Cfg.scale = None =>
        /\ total_dist(printer) = PolylineLength(NCalls) + NCalls * PlungeTravel
        /\ (NCalls = 2 /\ DrawnPoint(1) = <<500, 490>>
                /\ DrawnPoint(2) = <<290, 290>>
                /\ Cfg.z0 = 65 /\ Cfg.z_plunge = 40) =>
              Within001(total_dist(printer), (990 + 100) * Fine)

C8_Witness ==
    /\ printer.config = test_config
    /\ NCalls = 2
    /\ DrawnPoint(1) = <<500, 490>>
    /\ DrawnPoint(2) = <<290, 290>>
    /\ total_dist(printer) > 1089 * Fine

---------------------------------------------------------------------------
(* The tool height *)

(* C10: in the commands save hands to the sink, header, body and footer,   *)
(* every Move with an X or Y target comes when the last Move with a Z      *)
(* before it went to the resting height z0, and carries no other Z itself. *)
C10_LateralMovesAtRestingHeight ==
    status = "saved" =>
        \A i \in 1..Len(file.log) :
            IsXYMove(file.log[i]) =>
                /\ file.log[i].p.z \in {None, Some(Cfg.z0)}
                /\ \E j \in 1..(i - 1) :
                      /\ IsZMove(file.log[j])
                      /\ file.log[j].p.z = Some(Cfg.z0)
                      /\ \A k \in (j + 1)..(i - 1) : ~IsZMove(file.log[k])

C10_Witness ==
    /\ status = "saved"
    /\ NCalls = 3
    /\ Cfg.z_plunge # Cfg.z0
    /\ Cardinality({i \in 1..Len(file.log) : IsXYMove(file.log[i])}) = 4

---------------------------------------------------------------------------
(* The output of save *)

Log == file.log
HeaderLen == Len(save_header(printer))
FooterLen == Len(save_footer(printer))

(* The commands handed to the sink between the header and the footer *)
LogBody == SubSeq(Log, HeaderLen + 1, Len(Log) - FooterLen)

(* The texts of the commands cmds, each flattened to one string *)
Lines(cmds) == [i \in 1..Len(cmds) |-> Str(CodeToString(cmds[i]))]

(* f holds the text of every command of its log, each followed by "\n" *)
HoldsEveryLine(f) ==
    /\ Len(f.data) = 2 * Len(f.log)
    /\ \A i \in 1..Len(f.log) :
          /\ f.data[2 * i - 1] = CodeToString(f.log[i])
          /\ f.data[2 * i] = <<"\n">>

NotMessage(c) == c.kind # "Message"

(* What a save of the Printer pr that returned with the file f handed to   *)
(* the sink: the header, the buffer in order with nothing but Messages     *)
(* between its commands, the footer                                        *)
ThreePhases(pr, f) ==
    LET header == save_header(pr)
        footer == save_footer(pr)
        n == Len(f.log)
    IN  /\ n >= Len(header) + Len(footer)
        /\ SubSeq(f.log, 1, Len(header)) = header
        /\ SubSeq(f.log, n - Len(footer) + 1, n) = footer
        /\ SelectSeq(SubSeq(f.log, Len(header) + 1, n - Len(footer)),
                     NotMessage) = pr.code
        /\ f.failFrom = 0 => HoldsEveryLine(f)

(* C2: a save that returns has written the header, then the body, then the *)
(* footer; the body is the buffer, every command once and in insertion     *)
(* order, with only Messages added; the buffer is as it was, and a second  *)
(* save of the same Printer hands the same lines to the sink.              *)
C2_SaveThreePhasesInOrder ==
    [][saves' = saves + 1 =>
          /\ printer' = printer
          /\ ThreePhases(printer', file')
          /\ Lines(file'.log) = Lines(prev')]_vars

C2_Witness ==
    /\ status = "saved"
    /\ saves = 2
    /\ NCalls = 2
    /\ file.failFrom = 0
    /\ Len(LogBody) = 12
    /\ Lines(Log) = Lines(prev)
    /\ Log[HeaderLen + 5] = Buf[5]
    /\ Log[HeaderLen + 6].kind = "Message"
    /\ Log[HeaderLen + 7] = Buf[6]

---------------------------------------------------------------------------
(* The empty buffer *)

(* The lines of a save of an empty buffer under configuration cfg *)
EmptyJobLines(cfg) ==
    <<"; Start of generated code">>
      \o (IF cfg.model = None THEN <<>>
          ELSE <<"M862.3 P \"MK3S\" ; printer model check">>)
      \o << "G21 ; Set units to millimeters",
            "G90 ; Use absolute coordinates",
            "G28 W ; Home all without mesh bed level",
            "",
            "G0 Z" \o Str(Fmt1(cfg.z0)) \o " F" \o Str(Fmt1(cfg.move_speed)),
            "G0 X50.0 Y35.0 F" \o Str(Fmt1(cfg.move_speed)),
            "G92 X0 Y0 ; Set current position to origin",
            "M117 0.0%",
            "",
            "; Lift the head up before turning off",
            "G0 Z80.0 F" \o Str(Fmt1(cfg.move_speed)),
            "M84 ; Disable motors",
            "" >>

(* C5: a save of an empty buffer returns, having written the whole header  *)
(* and directly after it the whole footer: no body line, no progress       *)
(* message besides the header's 0.0%.                                      *)
C5_EmptyBufferHeaderThenFooter ==
    (status = "saved" /\ Buf = <<>>) =>
        /\ Lines(Log) = EmptyJobLines(Cfg)
        /\ Len(Log) = HeaderLen + FooterLen
        /\ Cardinality({i \in 1..Len(Log) : Log[i].kind = "Message"}) = 1
        /\ file.failFrom = 0 => HoldsEveryLine(file)

C5_Witness ==
    /\ status = "saved"
    /\ Buf = <<>>
    /\ printer.config = test_config
    /\ file.failFrom = 0
    /\ Len(file.data) = 30
    /\ Str(file.data[13]) = "G0 Z6.5 F1000.0"
    /\ Str(file.data[23]) = "; Lift the head up before turning off"

---------------------------------------------------------------------------
(* Failures of the sink *)

(* The number of lines a save of the present Printer writes *)
LinesOfSave == HeaderLen + Len(Buf) + Len(Buf) \div save_skip(Len(Buf)) + FooterLen

(* The number of the first n calls of write_all on f that failed *)
FailedWrites(f, n) ==
    IF f.failFrom = 0 \/ n < f.failFrom THEN 0
    ELSE IF f.permanent THEN n - f.failFrom + 1 ELSE 1

(* save ran through header, body and footer whatever the writes did *)
RanToCompletion ==
    /\ Len(Log) = LinesOfSave
    /\ ThreePhases(printer, file)
    /\ file.writes = 2 * LinesOfSave
    /\ Len(file.data) = file.writes - FailedWrites(file, file.writes)

(* C6 as claimed: whatever fails in the sink, the creation of the file     *)
(* included, save runs to normal completion and the caller sees no abort.  *)
C6_Original_EveryFailureDiscarded ==
    /\ status # "panicked"
    /\ status = "saved" => RanToCompletion

(* C6 as amended: a failing write of a line is discarded, and save still   *)
(* runs through header, body and footer and returns; a failing creation of *)
(* the file is not caught: save panics before it writes anything.          *)
C6_WriteFailuresDiscardedCreatePanics ==
    /\ status = "saved" => RanToCompletion
    /\ status = "panicked" => file = NoFile

C6_Witness ==
    /\ status = "saved"
    /\ NCalls = 1
    /\ file.failFrom = 2
    /\ file.permanent
    /\ Len(file.data) = 1
    /\ file.writes = 2 * LinesOfSave
    /\ Len(Log) = LinesOfSave

---------------------------------------------------------------------------
(* The progress messages *)

DigitTokens == {"0", "1", "2", "3", "4", "5", "6", "7", "8", "9"}

IsNumber(ts) == Len(ts) >= 1 /\ \A i \in 1..Len(ts) : ts[i] \in DigitTokens

DigitValue(t) == CHOOSE d \in 0..9 : Digit(d) = t

(* The number a sequence of digits writes *)
RECURSIVE NumberOf(_)
NumberOf(ts) ==
    IF Len(ts) = 0 THEN 0
    ELSE 10 * NumberOf(SubSeq(ts, 1, Len(ts) - 1)) + DigitValue(ts[Len(ts)])

(* c is a Message "P.p% Rhh:mm:ss" whose percentage is k / len to the      *)
(* nearest tenth of a percent and whose time, split by integer division,   *)
(* is (1 - k / len) * total_time cut to whole seconds as the f32 product   *)
(* is: the seconds begun, or one less where the exact product is whole and *)
(* the f32 one falls just short of it                                      *)
IsProgressMessage(c, k, len, total_time) ==
    /\ c.kind = "Message"
    /\ LET m == c.m
           n == Len(m)
       IN  /\ n >= 14
           /\ SubSeq(m, n - 12, n - 8) = <<".", m[n - 11], "%", " ", "R">>
           /\ m[n - 5] = ":" /\ m[n - 2] = ":"
           /\ IsNumber(SubSeq(m, 1, n - 13)) /\ IsNumber(<<m[n - 11]>>)
           /\ IsNumber(SubSeq(m, n - 7, n - 6))
           /\ IsNumber(SubSeq(m, n - 4, n - 3))
           /\ IsNumber(SubSeq(m, n - 1, n))
           /\ LET percent == 10 * NumberOf(SubSeq(m, 1, n - 13))
                                + NumberOf(<<m[n - 11]>>)
                  hours == NumberOf(SubSeq(m, n - 7, n - 6))
                  minutes == NumberOf(SubSeq(m, n - 4, n - 3))
                  seconds == NumberOf(SubSeq(m, n - 1, n))
                  remaining == 3600 * hours + 60 * minutes + seconds
              IN  /\ 2 * Abs(percent * len - 1000 * k) <= len
                  /\ minutes < 60 /\ seconds < 60
                  /\ remaining * len <= (len - k) * total_time
                  /\ (len - k) * total_time <= (remaining + 1) * len

(* C4: in the body, the k-th command of the buffer is followed by exactly  *)
(* one progress message if k is a multiple of skip and by none otherwise,  *)
(* so that there are Len div skip of them; the message after the k-th      *)
(* command reports k / Len and (1 - k / Len) x the total time as h:m:s.    *)
C4_MessageAfterEverySkipth ==
    status = "saved" =>
        LET len == Len(Buf)
            skip == save_skip(len)
            total_time == save_total_time(printer)
            body == LogBody
        IN  /\ Len(Log) = HeaderLen + len + len \div skip + FooterLen
            /\ \A k \in 1..len :
                  LET pos == k + (k - 1) \div skip
                  IN  /\ body[pos] = Buf[k]
                      /\ k % skip = 0 =>
                            IsProgressMessage(body[pos + 1], k, len, total_time)

C4_Witness ==
    /\ status = "saved"
    /\ Len(Buf) = 450
    /\ save_skip(Len(Buf)) = 6
    /\ Len(LogBody) = 525
    /\ LogBody[6] = Buf[6]
    /\ Str(CodeToString(LogBody[7])) = "M117 1.3% R00:26:45"
    /\ LogBody[8] = Buf[7]

---------------------------------------------------------------------------
(* The interval *)

(* C3 as claimed: skip = max(round(0.015 * L), 5), so 5 for L = 200 and    *)
(* 150 for L = 10000, and never below 5.                                   *)
C3_Original_SkipRounds ==
    res # None =>
        LET len == Unwrap(arg)
            skip == Unwrap(res)
            rounded == CHOOSE r \in 0..len :
                          200 * r - 100 <= 3 * len /\ 3 * len < 200 * r + 100
        IN  /\ skip = Max(rounded, 5)
            /\ len = 200 => skip = 5
            /\ len = 10000 => skip = 150
            /\ skip >= 5

(* C3 as amended: skip = max(the integer part of 0.015 * L, 5), so 5 for   *)
(* L = 200 and 150 for L = 10000, and never below 5.                       *)
C3_SkipTruncates ==
    res # None =>
        LET len == Unwrap(arg)
            skip == Unwrap(res)
        IN  /\ skip >= 5
            /\ 3 * len >= 1000 =>
                  200 * skip <= 3 * len /\ 3 * len < 200 * (skip + 1)
            /\ 3 * len < 1000 => skip = 5
            /\ len = 200 => skip = 5
            /\ len = 10000 => skip = 150

C3_Witness ==
    /\ arg = Some(370)
    /\ res = Some(5)

---------------------------------------------------------------------------
(* The rendering of a Move *)

(* The fragments of the present axes of point p, in the order X, Y, Z *)
Fragments(p) ==
    (IF p.x = None THEN <<>> ELSE <<"X" \o Str(Fmt1(Unwrap(p.x)))>>)
      \o (IF p.y = None THEN <<>> ELSE <<"Y" \o Str(Fmt1(Unwrap(p.y)))>>)
      \o (IF p.z = None THEN <<>> ELSE <<"Z" \o Str(Fmt1(Unwrap(p.z)))>>)

(* The strings ss with one space between any two *)
RECURSIVE Joined(_)
Joined(ss) ==
    IF Len(ss) = 0 THEN ""
    ELSE IF Len(ss) = 1 THEN ss[1]
    ELSE ss[1] \o " " \o Joined(Tail(ss))

(* Text t has no space at its start, at its end, or after another space *)
SingleSpaced(t) ==
    /\ t # <<>> => t[1] # " " /\ t[Len(t)] # " "
    /\ \A i \in 1..(Len(t) - 1) : ~(t[i] = " " /\ t[i + 1] = " ")

(* C9: a Move without any axis renders as the warning comment and never as *)
(* a G0 line; any other Move renders as "G0 ", the fragments of the        *)
(* present axes in the order X, Y, Z with one space between two of them    *)
(* and none before, after or doubled, then " F" and the feed rate.         *)
C9_MoveRendering ==
    res # None =>
        LET move == Unwrap(arg)
            text == Unwrap(res)
            frags == Fragments(move.p)
        IN  /\ SingleSpaced(text)
            /\ IF frags = <<>>
               THEN /\ Str(text) = "; [WARNING] Move without coordinates!"
                    /\ text[1] # "G"
               ELSE /\ Str(text) = "G0 " \o Joined(frags) \o " F"
                                       \o Str(Fmt1(move.s))
                    /\ Cardinality({i \in 1..Len(text) : text[i] = " "})
                          = Len(frags) + 1
            /\ move = Move(Point(Some(0), Some(10), Some(20)), 10000) =>
                  Str(text) = "G0 X0.0 Y1.0 Z2.0 F1000.0"
            /\ move = Move(Point(Some(0), None, Some(20)), 10000) =>
                  Str(text) = "G0 X0.0 Z2.0 F1000.0"
            /\ move = Move(Point(None, Some(10), None), 10000) =>
                  Str(text) = "G0 Y1.0 F1000.0"

C9_Witness ==
    /\ arg = Some(Move(Point(Some(-125), None, Some(2540)), 5005))
    /\ res # None
    /\ Str(Unwrap(res)) = "G0 X-12.5 Z254.0 F500.5"

===========================================================================
